---- MODULE Spec2Model ----
(***************************************************************************)
(* Model of src/src/hamming_code.py: the (10,6) Hamming code extended by   *)
(* one overall parity bit (11 bits on the wire).                           *)
(*                                                                         *)
(* Python lists and tuples are TLA+ sequences, so a Python index x is      *)
(* the sequence index x + 1.  Column indices stored in the syndrome table  *)
(* and bit positions named by the properties keep the Python (0-based)     *)
(* numbering.                                                              *)
(*                                                                         *)
(* Spec        one HammingCode instance, built from the fixed seed matrix, *)
(*             and the encode / decode calls made on it.                   *)
(* SpecReduce  __convert_to_g applied to every small binary matrix.        *)
(***************************************************************************)
EXTENDS Integers, Sequences, FiniteSets, TLC

\* ------------------------------------------------------------------ bounds
\* Words offered to encode have a length within LenSlack of data_bits,
\* words offered to decode a length within LenSlack of total_bits.
LenSlack == 1
\* At most MaxFlips distinct bits of a codeword are flipped in transit.
MaxFlips == 2
\* SpecReduce: matrices of 1..MaxRows rows and 1..MaxCols columns.
MaxRows == 3
MaxCols == 3

\* --------------------------------------------------------------- constants
total_bits == 11
data_bits == 6
HammingLen == 10

VALID == "OK"
CORRECTED == "FIXED"
UNCORRECTABLE == "ERROR"

\* Python's None as the data part of a decode result: the empty tuple, which
\* no 6-bit data word equals.
None == << >>

\* raise ValueError(...)
ValueError == [raised |-> TRUE, error |-> "ValueError"]

gns ==
  << <<1, 1, 1, 0, 0, 0, 0, 1, 0, 0>>,
     <<0, 1, 0, 0, 1, 0, 0, 1, 0, 0>>,
     <<1, 0, 0, 1, 0, 1, 0, 0, 0, 0>>,
     <<0, 0, 0, 1, 0, 0, 1, 1, 0, 0>>,
     <<1, 1, 0, 1, 0, 0, 0, 1, 1, 0>>,
     <<1, 0, 0, 1, 0, 0, 0, 1, 0, 1>> >>

\* ----------------------------------------------------------------- helpers
Bit == {0, 1}

Min(a, b) == IF a < b THEN a ELSE b

\* All binary words of length n.
Words(n) == [1..n -> Bit]

RECURSIVE SumSeq(_)
SumSeq(s) == IF s = << >> THEN 0 ELSE s[1] + SumSeq(Tail(s))

\* s[:n]
Prefix(s, n) == SubSeq(s, 1, Min(n, Len(s)))

\* x ^ y on bits
BitXor(x, y) == (x + y) % 2

\* [x ^ y for x, y in zip(a, b)]
XorRow(a, b) == [c \in 1..Min(Len(a), Len(b)) |-> BitXor(a[c], b[c])]

\* sum(a * b for a, b in zip(vec_a, vec_b)) % 2
dot_product_mod2(vec_a, vec_b) ==
  SumSeq([c \in 1..Min(Len(vec_a), Len(vec_b)) |-> vec_a[c] * vec_b[c]]) % 2

\* ---------------------------------------------------------- Matrix Reducer
\* The row the pivot search of forward iteration i swaps into place: the
\* first row j below i with m[j][i] = 1; 0 when there is none.
FindPivot(m, i) ==
  LET below == {j \in (i + 1)..Len(m) : m[j][i] = 1}
  IN IF below = {} THEN 0 ELSE CHOOSE j \in below : \A x \in below : j <= x

\* m[i], m[j] = m[j], m[i]
SwapRows(m, i, j) ==
  [r \in 1..Len(m) |-> IF r = i THEN m[j] ELSE IF r = j THEN m[i] ELSE m[r]]

\* PivotSearch without the swap: the pivot row is looked for but not moved.
PivotSearch_no_swap(m, i) == m

\* The pivot search of forward iteration i.
PivotSearch(m, i) ==
  IF m[i][i] = 0 /\ FindPivot(m, i) # 0 THEN SwapRows(m, i, FindPivot(m, i)) ELSE m

\* "Eliminate below": rows j > i with a 1 in column i get row i XORed in.
\* Row i itself is never changed by the loop, so the rows are independent.
EliminateBelow(m, i) ==
  [j \in 1..Len(m) |-> IF j > i /\ m[j][i] = 1 THEN XorRow(m[j], m[i]) ELSE m[j]]

\* One iteration of the forward loop.
ForwardStep(m, i) == EliminateBelow(PivotSearch(m, i), i)

\* The forward loop from iteration i on.
RECURSIVE Forward(_, _)
Forward(m, i) == IF i > Len(m) THEN m ELSE Forward(ForwardStep(m, i), i + 1)

\* BackwardStep with the inner range ending one row early: row 0 is never cleared.
BackwardStep_skip_row0(m, i) ==
  [j \in 1..Len(m) |->
     IF j < i /\ j > 1 /\ m[j][i] = 1 THEN XorRow(m[j], m[i]) ELSE m[j]]

\* One iteration of the backward loop: rows j < i with a 1 in column i.
BackwardStep(m, i) ==
  [j \in 1..Len(m) |-> IF j < i /\ m[j][i] = 1 THEN XorRow(m[j], m[i]) ELSE m[j]]

\* The backward loop from iteration i down.
RECURSIVE Backward(_, _)
Backward(m, i) == IF i < 1 THEN m ELSE Backward(BackwardStep(m, i), i - 1)

convert_to_g(seed) == Backward(Forward(seed, 1), Len(seed))

\* How the call ends.  The function has no raise statement; the only failure
\* is the IndexError of m[i][i] at i = columns, reached when the matrix has
\* more rows than columns.
convert_outcome(seed) ==
  IF Len(seed) > Len(seed[1]) THEN "raised" ELSE "returned"

\* The matrix the forward loop holds when iteration i begins.
RECURSIVE ForwardUpTo(_, _)
ForwardUpTo(m, i) == IF i <= 1 THEN m ELSE ForwardStep(ForwardUpTo(m, i - 1), i - 1)

\* Forward iterations whose pivot entry is 0 with no row below to swap in.
\* The code has no branch for this case: the inner for loop simply ends.
PivotMissing(seed) ==
  {i \in 1..Min(Len(seed), Len(seed[1])) :
     LET m == ForwardUpTo(seed, i) IN m[i][i] = 0 /\ FindPivot(m, i) = 0}

\* derive_h slicing P one column too far right (row[k + 1:]).
derive_h_short_p(gm) ==
  LET k == data_bits
      r_matrix == Len(gm[1]) - k
      p_part == [j \in 1..Len(gm) |-> SubSeq(gm[j], k + 2, Len(gm[j]))]
      p_transposed ==
        [i \in 1..Len(p_part[1]) |-> [j \in 1..Len(p_part) |-> p_part[j][i]]]
      identity ==
        [i \in 1..r_matrix |-> [j \in 1..r_matrix |-> IF i = j THEN 1 ELSE 0]]
  IN [i \in 1..Min(Len(p_transposed), Len(identity)) |->
        p_transposed[i] \o identity[i]]

\* ------------------------------------------------- Parity-Check Derivator
\* H = [P^T | I] from G = [I | P]; k is self.data_bits whatever the shape of g.
derive_h(gm) ==
  LET k == data_bits
      r_matrix == Len(gm[1]) - k
      p_part == [j \in 1..Len(gm) |-> SubSeq(gm[j], k + 1, Len(gm[j]))]
      p_transposed ==
        [i \in 1..Len(p_part[1]) |-> [j \in 1..Len(p_part) |-> p_part[j][i]]]
      identity ==
        [i \in 1..r_matrix |-> [j \in 1..r_matrix |-> IF i = j THEN 1 ELSE 0]]
  IN [i \in 1..Min(Len(p_transposed), Len(identity)) |->
        p_transposed[i] \o identity[i]]

\* ------------------------------------------------- Syndrome Table Builder
\* col_vector reading one row too few (range(rows_h - 1)).
col_vector_short(hm, col_idx) == [r \in 1..(Len(hm) - 1) |-> hm[r][col_idx + 1]]

\* tuple(self.h[r][col_idx] for r in range(rows_h)), col_idx 0-based
col_vector(hm, col_idx) == [r \in 1..Len(hm) |-> hm[r][col_idx + 1]]

\* The dict after the loop: a later column overwrites an equal earlier one.
build_syndrome_map(hm) ==
  LET cols == 0..(Len(hm[1]) - 1)
      keys == {col_vector(hm, c) : c \in cols}
  IN [key \in keys |->
        CHOOSE c \in cols :
          /\ col_vector(hm, c) = key
          /\ \A c2 \in cols : col_vector(hm, c2) = key => c2 <= c]

\* dict.setdefault(key, default) in place of dict.get: a missing key is stored.
dict_setdefault(d, key, default) ==
  [value |-> IF key \in DOMAIN d THEN d[key] ELSE default,
   dict |-> IF key \in DOMAIN d
            THEN d
            ELSE [x \in DOMAIN d \cup {key} |-> IF x = key THEN default ELSE d[x]]]

\* dict.get(key, default): the value found and the dict afterwards.
dict_get(d, key, default) ==
  [value |-> IF key \in DOMAIN d THEN d[key] ELSE default, dict |-> d]

\* ----------------------------------------------------------------- Encoder
\* The length test of encode with < in place of !=.
encode_length_error_lt(source_word) == Len(source_word) < data_bits

\* The length test of encode.
encode_length_error(source_word) == Len(source_word) # data_bits

encode(gm, source_word) ==
  IF encode_length_error(source_word)
  THEN ValueError
  ELSE LET cols_g == Len(gm[1])
           encoded_bits ==
             [i \in 1..cols_g |->
                dot_product_mod2(source_word,
                                 [row \in 1..data_bits |-> gm[row][i]])]
       IN [raised |-> FALSE,
           word |-> Append(encoded_bits, SumSeq(encoded_bits) % 2)]

\* ----------------------------------------------------------------- Decoder
\* The length test of decode.
decode_length_error(encoded_word) == Len(encoded_word) # total_bits

\* The parity test with == in place of !=.
has_parity_error_eq(hamming_part, received_p5) ==
  (SumSeq(hamming_part) % 2) = received_p5

\* The parity test taken over the whole received word, parity bit included:
\* (sum(encoded_word) % 2) != received_p5.
has_parity_error_whole(hamming_part, received_p5) ==
  ((SumSeq(hamming_part) + received_p5) % 2) # received_p5

\* (sum(hamming_part) % 2) != received_p5
has_parity_error(hamming_part, received_p5) ==
  (SumSeq(hamming_part) % 2) # received_p5

\* [dot(hamming_part, row_h) for row_h in self.h]
syndrome_of(hm, hamming_part) ==
  [r \in 1..Len(hm) |-> dot_product_mod2(hamming_part, hm[r])]

\* flip_bit taking error_idx as a 1-based position: the bit before is flipped.
flip_bit_off_by_one(hamming_part, error_idx) ==
  [c \in 1..Len(hamming_part) |->
     IF c = error_idx THEN BitXor(hamming_part[c], 1) ELSE hamming_part[c]]

\* hamming_part[error_idx] ^= 1 on the call's own list, error_idx 0-based
flip_bit(hamming_part, error_idx) ==
  [c \in 1..Len(hamming_part) |->
     IF c = error_idx + 1 THEN BitXor(hamming_part[c], 1) ELSE hamming_part[c]]

\* decode: what the call returns (or raises) and the syndrome table after it.
decode(hm, smap, encoded_word) ==
  IF decode_length_error(encoded_word)
  THEN [ret |-> ValueError, syndrome_map |-> smap]
  ELSE
    LET hamming_part == Prefix(encoded_word, HammingLen)
        received_p5 == encoded_word[HammingLen + 1]
        parity_error == has_parity_error(hamming_part, received_p5)
        syndrome_tuple == syndrome_of(hm, hamming_part)
        syndrome_is_zero == \A r \in 1..Len(syndrome_tuple) : syndrome_tuple[r] = 0
        lookup == dict_get(smap, syndrome_tuple, -1)
        error_idx == lookup.value
    IN IF syndrome_is_zero
       THEN [ret |-> [raised |-> FALSE,
                      data |-> Prefix(hamming_part, data_bits),
                      status |-> IF parity_error THEN CORRECTED ELSE VALID],
             syndrome_map |-> smap]
       ELSE IF parity_error
            THEN IF error_idx # -1
                 THEN [ret |-> [raised |-> FALSE,
                                data |-> Prefix(flip_bit(hamming_part, error_idx),
                                                data_bits),
                                status |-> CORRECTED],
                       syndrome_map |-> lookup.dict]
                 ELSE [ret |-> [raised |-> FALSE, data |-> None,
                                status |-> UNCORRECTABLE],
                       syndrome_map |-> lookup.dict]
            ELSE [ret |-> [raised |-> FALSE, data |-> None,
                           status |-> UNCORRECTABLE],
                  syndrome_map |-> smap]

\* ------------------------------------------------------------------- state
VARIABLES
  g,             \* self.g
  h,             \* self.h
  syndrome_map,  \* self.syndrome_map
  op,            \* the call just made on the instance: "idle" (none), "encode", "decode"
  arg,           \* its argument
  ret,           \* what it returned or raised
  sent,          \* the data word whose codeword was put on the channel
  channel,       \* the codeword in transit, << >> when there is none
  flips,         \* the (0-based) positions of it flipped in transit
  seed,          \* SpecReduce: the matrix handed to __convert_to_g
  reduced,       \* SpecReduce: the matrix it returned
  outcome        \* SpecReduce: "pending", "returned" or "raised"

vars == <<g, h, syndrome_map, op, arg, ret, sent, channel, flips,
          seed, reduced, outcome>>

instance == <<g, h, syndrome_map>>
calls == <<op, arg, ret, sent, channel, flips>>
reducer == <<seed, reduced, outcome>>

\* HammingCode.__init__
Constructed ==
  /\ g = convert_to_g(gns)
  /\ h = derive_h(g)
  /\ syndrome_map = build_syndrome_map(h)

NoCalls ==
  /\ op = "idle"
  /\ arg = << >>
  /\ ret = [raised |-> FALSE]
  /\ sent = << >>
  /\ channel = << >>
  /\ flips = {}

Init ==
  /\ Constructed
  /\ NoCalls
  /\ seed = << >>
  /\ reduced = << >>
  /\ outcome = "idle"

EncodeInputs ==
  UNION {Words(n) : n \in (data_bits - LenSlack)..(data_bits + LenSlack)}

DecodeInputs ==
  UNION {Words(n) : n \in (total_bits - LenSlack)..(total_bits + LenSlack)}

\* The program is sequential: a call is made when no call's result is being
\* looked at.  A caller encodes a word; a codeword returned goes onto the
\* channel.
Encode(w) ==
  LET r == encode(g, w)
  IN /\ op = "idle"
     /\ op' = "encode"
     /\ arg' = w
     /\ ret' = r
     /\ sent' = IF r.raised THEN << >> ELSE w
     /\ channel' = IF r.raised THEN << >> ELSE r.word
     /\ flips' = {}
     /\ UNCHANGED <<instance, reducer>>

\* Transmission noise flips one more bit of the codeword in transit.
Corrupt(i) ==
  /\ channel # << >>
  /\ i \notin flips
  /\ Cardinality(flips) < MaxFlips
  /\ channel' = [c \in 1..Len(channel) |->
                    IF c = i + 1 THEN 1 - channel[c] ELSE channel[c]]
  /\ flips' = flips \cup {i}
  /\ UNCHANGED <<instance, op, arg, ret, sent, reducer>>

\* The receiver decodes the word that arrives.
Receive ==
  LET r == decode(h, syndrome_map, channel)
  IN /\ channel # << >>
     /\ op' = "decode"
     /\ arg' = channel
     /\ ret' = r.ret
     /\ syndrome_map' = r.syndrome_map
     /\ channel' = << >>
     /\ UNCHANGED <<g, h, sent, flips, reducer>>

\* A caller decodes an arbitrary word.
Decode(w) ==
  LET r == decode(h, syndrome_map, w)
  IN /\ op = "idle"
     /\ op' = "decode"
     /\ arg' = w
     /\ ret' = r.ret
     /\ syndrome_map' = r.syndrome_map
     /\ sent' = << >>
     /\ channel' = << >>
     /\ flips' = {}
     /\ UNCHANGED <<g, h, reducer>>

\* The caller is done with the result of the last call; the instance stays.
Done ==
  /\ op # "idle"
  /\ op' = "idle"
  /\ arg' = << >>
  /\ ret' = [raised |-> FALSE]
  /\ sent' = << >>
  /\ channel' = << >>
  /\ flips' = {}
  /\ UNCHANGED <<instance, reducer>>

\* Calls are made from the idle state only; the guard is repeated here so that
\* the inputs are enumerated in that state alone.
Next ==
  \/ op = "idle" /\ \E w \in EncodeInputs : Encode(w)
  \/ \E i \in 0..(total_bits - 1) : Corrupt(i)
  \/ Receive
  \/ op = "idle" /\ \E w \in DecodeInputs : Decode(w)
  \/ Done

Spec == Init /\ [][Next]_vars

\* ----------------------------------------------------------- SpecReduce
\* k x n binary matrices, 1 <= k <= MaxRows, 1 <= n <= MaxCols
ReduceInputs ==
  UNION {[1..k -> Words(n)] : k \in 1..MaxRows, n \in 1..MaxCols}

InitReduce ==
  /\ Constructed
  /\ NoCalls
  /\ seed \in ReduceInputs
  /\ reduced = << >>
  /\ outcome = "pending"

\* The call __convert_to_g(seed).
ConvertToG ==
  /\ outcome = "pending"
  /\ outcome' = convert_outcome(seed)
  /\ reduced' = IF outcome' = "returned" THEN convert_to_g(seed) ELSE << >>
  /\ UNCHANGED <<instance, calls, seed>>

NextReduce == ConvertToG

SpecReduce == InitReduce /\ [][NextReduce]_vars

\* ------------------------------------------------------------ properties
\* The result decode gives for data word d with status st.
Result(d, st) == [raised |-> FALSE, data |-> d, status |-> st]

\* The last call decoded the word that came off the channel.
Received == op = "decode" /\ sent # << >>

\* C1 -- Round trip: a codeword returned by encode and decoded unchanged
\* gives back exactly the data word encoded, with status VALID.
C1_RoundTrip ==
  (Received /\ flips = {}) => ret = Result(sent, VALID)

C1_Witness ==
  /\ Received
  /\ flips = {}
  /\ sent = <<1, 0, 1, 1, 0, 0>>
  /\ arg = <<1, 0, 1, 1, 0, 0, 1, 0, 1, 1, 0>>
  /\ ret = Result(sent, VALID)

\* C2 -- Single-bit correction: a codeword with exactly one of its 11 bits
\* flipped (data bit, check bit or the overall parity bit) decodes to the data
\* word encoded, with status CORRECTED.
C2_SingleBitCorrected ==
  (Received /\ Cardinality(flips) = 1) => ret = Result(sent, CORRECTED)

C2_Witness ==
  /\ Received
  /\ flips = {3}
  /\ sent = <<1, 0, 1, 1, 0, 0>>
  /\ arg = <<1, 0, 1, 0, 0, 0, 1, 0, 1, 1, 0>>
  /\ ret = Result(sent, CORRECTED)

\* C3 -- Double-error detection: a codeword with exactly two distinct bits
\* flipped decodes to (None, UNCORRECTABLE), never to VALID or CORRECTED.
C3_DoubleErrorDetected ==
  (Received /\ Cardinality(flips) = 2) => ret = Result(None, UNCORRECTABLE)

C3_Witness ==
  /\ Received
  /\ flips = {0, 10}
  /\ ret = Result(None, UNCORRECTABLE)

\* C4 -- Length validation: encode raises the length error exactly for words
\* whose length is not 6, decode exactly for words whose length is not 11; a
\* call that raises returns nothing.
C4_LengthValidation ==
  /\ op = "encode" => (ret = ValueError <=> Len(arg) # 6)
  /\ op = "encode" /\ Len(arg) = 6 => ~ret.raised /\ Len(ret.word) = 11
  /\ op = "decode" => (ret = ValueError <=> Len(arg) # 11)
  /\ op = "decode" /\ Len(arg) = 11 => ~ret.raised /\ ret.status \in {VALID, CORRECTED, UNCORRECTABLE}

C4_Witness ==
  /\ op = "decode"
  /\ Len(arg) = 12
  /\ ret = ValueError

\* C5 -- Immutability: no encode or decode call, whatever its outcome, and no
\* other step changes G, H or the syndrome table.
C5_PrecomputedStateImmutable ==
  [][g' = g /\ h' = h /\ syndrome_map' = syndrome_map]_vars

\* A decode that corrected a bit among the ten protected ones has run and the
\* instance is as constructed.
C5_Witness ==
  /\ Received
  /\ flips = {2}
  /\ ret.status = CORRECTED
  /\ Constructed

\* C6 -- Matrix invariants: the leftmost 6x6 block of G is the identity, and
\* every row of G has dot product 0 (mod 2) with every row of H.
C6_MatrixInvariants ==
  /\ Len(g) = 6
  /\ \A i \in 1..6 : \A j \in 1..6 : g[i][j] = (IF i = j THEN 1 ELSE 0)
  /\ \A i \in 1..Len(g) : \A r \in 1..Len(h) :
       Len(h[r]) = Len(g[i]) /\
       SumSeq([c \in 1..Len(g[i]) |-> g[i][c] * h[r][c]]) % 2 = 0

C6_Witness ==
  /\ op = "idle"
  /\ Len(h) = 4
  /\ g[3] = <<0, 0, 1, 0, 0, 0, 1, 1, 1, 0>>
  /\ h[1] = <<1, 0, 1, 1, 0, 0, 1, 0, 0, 0>>

\* The syndrome and the parity test of the word the last call decoded.
ArgSyndrome == syndrome_of(h, Prefix(arg, HammingLen))
ArgParityError == has_parity_error(Prefix(arg, HammingLen), arg[HammingLen + 1])
Zero4 == <<0, 0, 0, 0>>

\* The last call decoded an 11-bit word with a nonzero syndrome and a parity
\* mismatch: the branch that looks the syndrome up.
LookupBranch ==
  /\ op = "decode"
  /\ Len(arg) = 11
  /\ ArgSyndrome # Zero4
  /\ ArgParityError

\* Column c (0-based) of H, read top to bottom.
HColumn(c) == [r \in 1..Len(h) |-> h[r][c + 1]]

\* C8 as claimed -- every 11-bit word with nonzero syndrome and parity
\* mismatch decodes to CORRECTED: the fallback to UNCORRECTABLE is never taken.
C8_FallbackUnreachable ==
  LookupBranch => ret.status = CORRECTED

\* C8 amended -- in the lookup branch decode returns CORRECTED exactly when
\* the syndrome is one of the 10 columns of H and (None, UNCORRECTABLE)
\* otherwise; the fallback is never taken for a codeword with at most two
\* bits flipped.
C8_FallbackOnlyOffColumns ==
  LookupBranch =>
    /\ ret.status = CORRECTED <=> \E c \in 0..9 : HColumn(c) = ArgSyndrome
    /\ ret.status # CORRECTED => ret = Result(None, UNCORRECTABLE)
    /\ sent # << >> /\ Cardinality(flips) <= 2 => ret.status = CORRECTED

\* An arbitrary word took the fallback.
C8_Witness ==
  /\ LookupBranch
  /\ sent = << >>
  /\ ~(\E c \in 0..9 : HColumn(c) = ArgSyndrome)
  /\ ret = Result(None, UNCORRECTABLE)

\* C10 -- Syndrome table: the 10 columns of H are nonzero and pairwise
\* distinct, and the table has exactly 10 entries, mapping column c to c.
C10_SyndromeTable ==
  /\ Len(h) = 4
  /\ \A r \in 1..4 : Len(h[r]) = 10
  /\ \A c \in 0..9 : HColumn(c) # Zero4
  /\ \A c \in 0..9 : \A d \in 0..9 : HColumn(c) = HColumn(d) => c = d
  /\ Cardinality(DOMAIN syndrome_map) = 10
  /\ \A c \in 0..9 : HColumn(c) \in DOMAIN syndrome_map /\ syndrome_map[HColumn(c)] = c

C10_Witness ==
  /\ Cardinality(DOMAIN syndrome_map) = 10
  /\ syndrome_map[<<1, 0, 0, 1>>] = 0
  /\ syndrome_map[<<0, 1, 0, 1>>] = 5
  /\ syndrome_map[<<0, 0, 0, 1>>] = 9

\* ------------------------------------------------ properties of the reducer
\* The GF(2) sum of the rows of mx named by S.
Combo(mx, S) ==
  [c \in 1..Len(mx[1]) |-> Cardinality({j \in S : mx[j][c] = 1}) % 2]

\* The row space of mx.
Span(mx) == {Combo(mx, S) : S \in SUBSET (1..Len(mx))}

\* No nonempty set of rows sums to the zero row.
RowsIndependent(mx) ==
  \A S \in SUBSET (1..Len(mx)) :
    S # {} => \E c \in 1..Len(mx[1]) : Combo(mx, S)[c] = 1

\* The leftmost k columns of a k-row matrix.
LeftBlock(mx) == [i \in 1..Len(mx) |-> SubSeq(mx[i], 1, Len(mx))]

SameShape(a, b) ==
  Len(a) = Len(b) /\ \A i \in 1..Len(a) : Len(a[i]) = Len(b[i])

RowEquivalent(a, b) == SameShape(a, b) /\ Span(a) = Span(b)

\* The column of the leading 1 of a row, 0 for a zero row.
Lead(row) ==
  LET ones == {c \in 1..Len(row) : row[c] = 1}
  IN IF ones = {} THEN 0 ELSE CHOOSE c \in ones : \A x \in ones : c <= x

IsRREF(mx) ==
  /\ \A i \in 1..Len(mx) : \A j \in 1..Len(mx) :
       i < j => /\ Lead(mx[i]) = 0 => Lead(mx[j]) = 0
                /\ Lead(mx[j]) # 0 => Lead(mx[i]) < Lead(mx[j])
  /\ \A i \in 1..Len(mx) : \A j \in 1..Len(mx) :
       (Lead(mx[i]) # 0 /\ j # i) => mx[j][Lead(mx[i])] = 0

LeftIdentity(mx) ==
  \A i \in 1..Len(mx) : \A j \in 1..Len(mx) : mx[i][j] = (IF i = j THEN 1 ELSE 0)

ReducerContract ==
  /\ RowEquivalent(reduced, seed)
  /\ IsRREF(reduced)
  /\ LeftIdentity(reduced)

\* C7 -- a forward iteration that finds its pivot entry 0 and no row below
\* with a 1 in that column makes the call fail instead of returning a matrix.
C7_MissingPivotIsFatal ==
  (outcome # "pending" /\ PivotMissing(seed) # {}) => outcome = "raised"

====
